---- MODULE Spec2Model ----
(***************************************************************************)
(* The video server of src/app.js: an express application that keeps the   *)
(* metadata of uploaded videos in the in-memory list `videos` and stores   *)
(* the bytes in a Tencent COS bucket through cos.putObject and             *)
(* cos.deleteObject.  A handler runs without interruption up to an `await` *)
(* of a backend call; the callback of the backend call and the rest of the *)
(* handler (a chain of microtasks) run without interruption as well.  Each *)
(* action below is one such run.                                           *)
(*                                                                         *)
(* The file holds two revisions of the service.  The model is the first    *)
(* (lines 1-422), the one with the bulk clear; the upload, get and delete  *)
(* handlers of the second (lines 423-970) are the same statements.         *)
(***************************************************************************)
EXTENDS Integers, Sequences, FiniteSets, TLC

\* Number of requests the server handles at the same time.
MaxInFlight == 2
\* Number of uuidv4() calls during one run.
MaxUuid == 4

Slots == 1..MaxInFlight

VARIABLES
  videos,    \* let videos = []                       (line 60)
  objects,   \* keys present in the bucket (the backend's state)
  putOk,     \* keys whose putObject callback was invoked without an error
  nextUuid,  \* the number of uuidv4() calls made so far
  pc,        \* per slot: where its request waits ("idle": no request)
  arg,       \* per slot: the request (its :id and its multipart form)
  loc,       \* per slot: the handler's local constants
  calls,     \* per slot: backend calls issued by the request
  during,    \* per slot (history): what happened to videos while it waits
  last,      \* the response sent last, with the request it answers, the
             \* err its callback came with and what it saw while it waited
  acked,     \* (history) ids for which a DELETE /api/videos/:id answered 200
  fn         \* a call of one of the helper functions on its own: the
             \* function, its arguments and, once it returned, its result

vars == <<videos, objects, putOk, nextUuid, pc, arg, loc, calls,
          during, last, acked, fn>>

----------------------------------------------------------------------------
(* Strings are sequences of one-character strings.                         *)

Lower == {"a","b","c","d","e","f","g","h","i","j","k","l","m",
          "n","o","p","q","r","s","t","u","v","w","x","y","z"}
Upper == {"A","B","C","D","E","F","G","H","I","J","K","L","M",
          "N","O","P","Q","R","S","T","U","V","W","X","Y","Z"}
Digit == {"0","1","2","3","4","5","6","7","8","9"}

\* The largest index of s holding character c, 0 when there is none.
LastIndexOf(s, c) ==
  LET hits == {i \in 1..Len(s) : s[i] = c}
  IN  IF hits = {} THEN 0 ELSE CHOOSE i \in hits : \A j \in hits : j <= i

IsSuffix(t, s) ==
  /\ Len(t) <= Len(s)
  /\ SubSeq(s, Len(s) - Len(t) + 1, Len(s)) = t

\* The last segment of a path (what follows the last "/").
LastSegment(p) == SubSeq(p, LastIndexOf(p, "/") + 1, Len(p))

\* path.extname: from the last "." of the last segment to the end; empty
\* when there is no ".", when the "." starts the segment, or for "..".
extname(p) ==
  LET seg == LastSegment(p)
      d   == LastIndexOf(seg, ".")
  IN  IF d <= 1 \/ seg = <<".", ".">> THEN <<>> ELSE SubSeq(seg, d, Len(seg))

\* path.basename(p, ext): the last segment without the suffix ext.
basename(p, ext) ==
  LET seg == LastSegment(p)
  IN  IF ext # <<>> /\ seg # ext /\ IsSuffix(ext, seg)
        THEN SubSeq(seg, 1, Len(seg) - Len(ext))
        ELSE seg

\* /[^a-zA-Z0-9一-龥]/ : the characters replace() leaves alone.
Cjk == {"CJK_4E00", "CJK_9FA5"}
SafeChar(c) == c \in Lower \cup Upper \cup Digit \cup Cjk

\* baseName.replace(/[^a-zA-Z0-9一-龥]/g, '_')
safeBaseName(b) == [i \in 1..Len(b) |-> IF SafeChar(b[i]) THEN b[i] ELSE "_"]

\* The name without the uuid: what a generator that forgot the token gives.
generateSafeFilename_NoUuid(originalName, uniqueId) ==
  [base |-> safeBaseName(basename(originalName, extname(originalName))),
   uuid |-> 0,
   ext  |-> extname(originalName)]

\* `${safeBaseName}_${uniqueId}${extension}`.  The three parts are kept
\* apart: the string is base "_" uuid ext, and since a uuid has a fixed
\* length and no ".", and base has no ".", two names are the same string
\* exactly when their three parts are the same.
generateSafeFilename(originalName, uniqueId) ==
  [base |-> safeBaseName(basename(originalName, extname(originalName))),
   uuid |-> uniqueId,
   ext  |-> extname(originalName)]

\* The second revision of the generator (lines 567-573) differs in the
\* character class: /[^a-zA-Z0-9一-龥_-]/ leaves "_" and "-" alone too.
SafeChar2(c) == SafeChar(c) \/ c \in {"_", "-"}

safeBaseName2(b) ==
  [i \in 1..Len(b) |-> IF SafeChar2(b[i]) THEN b[i] ELSE "_"]

generateSafeFilename2(originalName, uniqueId) ==
  [base |-> safeBaseName2(basename(originalName, extname(originalName))),
   uuid |-> uniqueId,
   ext  |-> extname(originalName)]

\* originalname.replace(/\.[^/.]+$/, ""): drops a final "." followed by one
\* or more characters that are neither "/" nor ".".
StripExtension(s) ==
  LET d == LastIndexOf(s, ".")
  IN  IF d >= 1 /\ d < Len(s) /\ \A i \in (d+1)..Len(s) : s[i] # "/"
        THEN SubSeq(s, 1, d - 1)
        ELSE s

----------------------------------------------------------------------------
(* formatFileSize.  A byte count is a JavaScript number holding an integer *)
(* below 2^53; the sum of the sizes of the list passes 2^31, so a byte     *)
(* count is written here in base k, the lowest digit first and the highest *)
(* digit not 0 (<<>> is 0).  A division by a power of k is exact in a      *)
(* double.                                                                 *)

k == 1024
sizes == <<"Bytes", "KB", "MB", "GB">>

\* The byte count of the integer n >= 0.
RECURSIVE Bytes(_)
Bytes(n) == IF n = 0 THEN <<>> ELSE <<n % k>> \o Bytes(n \div k)

\* sum + video.size on byte counts: digit by digit with the carry c.
RECURSIVE Sum(_, _, _)
Sum(a, b, c) ==
  IF a = <<>> /\ b = <<>>
    THEN (IF c = 0 THEN <<>> ELSE <<c>>)
    ELSE LET x == IF a = <<>> THEN 0 ELSE Head(a)
             y == IF b = <<>> THEN 0 ELSE Head(b)
         IN  <<(x + y + c) % k>>
               \o Sum(IF a = <<>> THEN a ELSE Tail(a),
                      IF b = <<>> THEN b ELSE Tail(b),
                      (x + y + c) \div k)

\* The decimal digits of the integer n >= 0.
RECURSIVE Decimal(_)
Decimal(n) ==
  IF n < 10 THEN <<CHOOSE c \in Digit : c = ToString(n)>>
  ELSE Decimal(n \div 10) \o Decimal(n % 10)

\* Math.floor(Math.log(bytes) / Math.log(k)) for bytes >= 1: the position
\* of the highest digit, counted from 0.
floorLog(bytes) == Len(bytes) - 1

\* The carry out of digit j of 100 * fraction + 1/2, where the fraction is
\* the digits of bytes below the i-th and 1/2 is k/2 at its highest digit.
RECURSIVE Carry(_, _)
Carry(fraction, j) ==
  IF j = 0 THEN 0
  ELSE (100 * fraction[j] + Carry(fraction, j - 1)
          + (IF j = Len(fraction) THEN k \div 2 ELSE 0)) \div k

\* (bytes / Math.pow(k, i)).toFixed(2) as a number of hundredths: the
\* nearest one, and the larger of the two when two are as near.
toFixed(bytes, i) == 100 * bytes[i + 1] + Carry(SubSeq(bytes, 1, i), i)

\* parseFloat("w.dd") + '': the decimals without their final zeros.
parseFloat(hundredths) ==
  LET whole == Decimal(hundredths \div 100)
      cents == hundredths % 100
  IN  IF cents = 0 THEN whole
      ELSE IF cents % 10 = 0 THEN whole \o <<".">> \o Decimal(cents \div 10)
      ELSE whole \o <<".">> \o Decimal(cents \div 10) \o Decimal(cents % 10)

\* The string is number ' ' unit; sizes[i] of an index the table does not
\* have is undefined, which + turns into 'undefined'.
formatFileSize(bytes) ==
  IF bytes = <<>> THEN [number |-> <<"0">>, unit |-> "Bytes"]
  ELSE LET i == floorLog(bytes)
       IN  [number |-> parseFloat(toFixed(bytes, i)),
            unit   |-> IF i + 1 \in DOMAIN sizes THEN sizes[i + 1]
                       ELSE "undefined"]

----------------------------------------------------------------------------
(* Requests.                                                               *)

\* file.mimetype is "type/subtype".
Mime(t, s) == [type |-> t, subtype |-> s]

\* A file part of a multipart form: what multer hands to fileFilter and,
\* once stored in memory, to the handler as req.file (size = buffer.length).
FilePart(m, n, name) == [mimetype |-> m, size |-> n, originalname |-> name]

NameClip  == <<"c","l","i","p",".","m","p","4">>

\* limits.fileSize
fileSize == 100 * 1024 * 1024
\* limits.files
files == 1

TenMiB == 10 * 1024 * 1024
Mib150 == 150 * 1024 * 1024

\* The multipart forms the clients send: the parts named "video" in order,
\* and the text field "title" (empty when absent; "" is falsy as well).
Forms ==
  { [parts |-> <<FilePart(Mime("video", "mp4"), TenMiB, NameClip)>>,
     title |-> <<>>],
    [parts |-> <<FilePart(Mime("text", "plain"), 1024, NameClip)>>,
     title |-> <<>>],
    [parts |-> <<FilePart(Mime("video", "mp4"), Mib150, NameClip)>>,
     title |-> <<>>],
    [parts |-> <<FilePart(Mime("video", "mp4"), 1024, NameClip),
                 FilePart(Mime("video", "mp4"), 1024, NameClip)>>,
     title |-> <<>>],
    [parts |-> <<>>, title |-> <<>>] }

NoForm == [parts |-> <<>>, title |-> <<>>]
NoArg  == [id |-> 0, form |-> NoForm]

\* What the SDK passes as `err` to a callback: null, or an error whose
\* message is the backend's.
NoErr == [failed |-> FALSE, message |-> ""]
BackendErrors == { [failed |-> TRUE, message |-> "AccessDenied"] }
CallbackErrs == {NoErr} \cup BackendErrors

NoFilename == [base |-> <<>>, uuid |-> 0, ext |-> <<>>]
NoVideo == [id |-> 0, filename |-> NoFilename, originalName |-> <<>>,
            title |-> <<>>, size |-> 0, mimeType |-> Mime("", ""),
            url |-> NoFilename]
NoLoc == [safeFilename |-> NoFilename, videoIndex |-> -1, video |-> NoVideo,
          names |-> <<>>, pending |-> {}]
NoResp == [status |-> 0, message |-> <<>>, count |-> 0, body |-> <<>>]
NoCalls == [put |-> 0, del |-> 0]

\* res.status(s).json({success, message, ...}); res.json is status 200.
Response(s, m, c, b) == [status |-> s, message |-> m, count |-> c, body |-> b]

----------------------------------------------------------------------------
(* multer: upload.single('video') with the fileFilter and the limits.      *)

allowedTypes ==
  { Mime("video", "mp4"), Mime("video", "webm"), Mime("video", "ogg"),
    Mime("video", "quicktime"), Mime("video", "x-msvideo"),
    Mime("video", "avi"), Mime("video", "mov"), Mime("video", "mkv") }

\* A filter that lets every part through.
fileFilter_AcceptAll(file) == TRUE

\* file.mimetype.startsWith('video/') || allowedTypes.includes(file.mimetype)
fileFilter(file) ==
  file.mimetype.type = "video" \/ file.mimetype \in allowedTypes

\* What upload.single('video') passes on: "ok" (the handler runs, req.file
\* is the part or undefined) or the error given to next().  The first part
\* is filtered when its headers arrive, measured while it is read, and a
\* part beyond limits.files is refused when it arrives.
MulterOutcome(form) ==
  IF form.parts = <<>> THEN "ok"
  ELSE IF ~fileFilter(form.parts[1]) THEN "FILTER_ERROR"
  ELSE IF form.parts[1].size > fileSize THEN "LIMIT_FILE_SIZE"
  ELSE IF Len(form.parts) > files THEN "LIMIT_FILE_COUNT"
  ELSE "ok"

\* The error-handling middleware (app.use((error, req, res, next) => ...)).
\* '文件太大，请选择小于100MB的文件', '一次只能上传一个文件', '服务器内部错误'.
errorMiddleware(code) ==
  IF code = "LIMIT_FILE_SIZE"
    THEN Response(400, <<"file too large, choose one below 100MB">>, 0, <<>>)
  ELSE IF code = "LIMIT_FILE_COUNT"
    THEN Response(400, <<"only one file per upload">>, 0, <<>>)
  ELSE Response(500, <<"internal server error">>, 0, <<>>)

----------------------------------------------------------------------------
(* The backend wrappers.                                                   *)

\* A wrapper whose callback never looks at err.
uploadToCOS_IgnoreErr(err, filename) ==
  [resolved |-> TRUE, url |-> filename, message |-> <<>>]

\* uploadToCOS: the promise settled by putObject's callback.  The URL is
\* https://<bucket>.cos.<region>.myqcloud.com/videos/<filename>: a fixed
\* prefix and the filename, kept as the filename.
\* reject(new Error(`文件上传失败: ${err.message}`))
uploadToCOS(err, filename) ==
  IF err.failed
    THEN [resolved |-> FALSE, url |-> NoFilename,
          message |-> <<"file upload failed: ", err.message>>]
    ELSE [resolved |-> TRUE, url |-> filename, message |-> <<>>]

\* deleteFromCOS: the promise settled by deleteObject's callback.
\* reject(new Error(`文件删除失败: ${err.message}`))
deleteFromCOS(err, filename) ==
  IF err.failed
    THEN [resolved |-> FALSE,
          message |-> <<"file delete failed: ", err.message>>]
    ELSE [resolved |-> TRUE, message |-> <<>>]

----------------------------------------------------------------------------
(* Array operations on videos (indices as in the code, from 0).            *)

\* A lookup that answers the last index when no record matches.
findIndex_LastWhenAbsent(vs, id) ==
  LET hits == {i \in 1..Len(vs) : vs[i].id = id}
  IN  IF hits = {} THEN Len(vs) - 1
      ELSE (CHOOSE i \in hits : \A j \in hits : i <= j) - 1

\* videos.findIndex(v => v.id === videoId): -1 when none.
findIndex(vs, id) ==
  LET hits == {i \in 1..Len(vs) : vs[i].id = id}
  IN  IF hits = {} THEN -1
      ELSE (CHOOSE i \in hits : \A j \in hits : i <= j) - 1

\* videos.splice(index, 1) for index >= 0: nothing goes when index is past
\* the end.
splice(vs, index) ==
  IF index + 1 > Len(vs) THEN vs
  ELSE SubSeq(vs, 1, index) \o SubSeq(vs, index + 2, Len(vs))

\* A list that takes new records at the front.
unshift(vs, v) == <<v>> \o vs

\* videos.push(newVideo)
push(vs, v) == Append(vs, v)

Ids(vs) == {vs[i].id : i \in 1..Len(vs)}

----------------------------------------------------------------------------
(* The handlers.                                                           *)

NoLast == [kind |-> "none", arg |-> NoArg, resp |-> NoResp, err |-> NoErr,
           during |-> {}]

\* No helper function is called on its own.
NoCall == [op |-> "none", in |-> <<>>, returned |-> FALSE, out |-> <<>>]

\* The server after it started: no record, no request.
Started ==
  /\ videos = <<>>
  /\ objects = {}
  /\ putOk = {}
  /\ nextUuid = 0
  /\ pc = [r \in Slots |-> "idle"]
  /\ arg = [r \in Slots |-> NoArg]
  /\ loc = [r \in Slots |-> NoLoc]
  /\ calls = [r \in Slots |-> NoCalls]
  /\ during = [r \in Slots |-> {}]
  /\ last = NoLast
  /\ acked = {}

Init == Started /\ fn = NoCall

\* The ids a client asks for: of a record in the list, of a record whose
\* delete was answered with success, and one no record ever had.
IdInputs == Ids(videos) \cup acked \cup {0}

\* A request arrives: it takes the first slot that holds none.
Free(r) == pc[r] = "idle" /\ \A s \in Slots : s < r => pc[s] # "idle"

\* A request is answered by the run that received it: no slot changes.
Reply(op, request, response) ==
  /\ last' = [kind |-> op, arg |-> request, resp |-> response, err |-> NoErr,
              during |-> {}]
  /\ UNCHANGED <<pc, arg, loc, calls, during, fn>>

\* The request waits in slot r for its backend callbacks.
Suspend(r, where, request, locals, issued) ==
  /\ pc' = [pc EXCEPT ![r] = where]
  /\ arg' = [arg EXCEPT ![r] = request]
  /\ loc' = [loc EXCEPT ![r] = locals]
  /\ calls' = [calls EXCEPT ![r] = issued]
  /\ during' = [during EXCEPT ![r] = {}]
  /\ UNCHANGED <<last, fn>>

\* What a run does to the list: the ids it adds and the ids it takes away.
Changes(before, after) ==
  {<<"pushed", id>> : id \in Ids(after) \ Ids(before)}
    \cup {<<"removed", id>> : id \in Ids(before) \ Ids(after)}

\* The request of slot r is answered after its callback came with err.
\* The handlers that wait between their lookup and their own change of
\* videos have seen the list change from `before` to `after`.
Answer(r, op, response, err, before, after) ==
  /\ last' = [kind |-> op, arg |-> arg[r], resp |-> response, err |-> err,
              during |-> during[r]]
  /\ pc' = [pc EXCEPT ![r] = "idle"]
  /\ arg' = [arg EXCEPT ![r] = NoArg]
  /\ loc' = [loc EXCEPT ![r] = NoLoc]
  /\ calls' = [calls EXCEPT ![r] = NoCalls]
  /\ during' = [s \in Slots |->
                  IF s = r THEN {}
                  ELSE IF pc[s] \in {"deleting", "clearing"}
                    THEN during[s] \cup Changes(before, after)
                  ELSE during[s]]
  /\ UNCHANGED fn

\* const newVideo = {...} of POST /api/upload: body is req.body, file is
\* req.file.  A record that forgot the length of the file:
newVideo_NoSize(id, safeFilename, body, file, videoUrl) ==
  [id |-> id,
   filename |-> safeFilename,
   originalName |-> file.originalname,
   title |-> IF body.title # <<>> THEN body.title
             ELSE StripExtension(file.originalname),
   size |-> 0,
   mimeType |-> file.mimetype,
   url |-> videoUrl]

newVideo(id, safeFilename, body, file, videoUrl) ==
  [id |-> id,
   filename |-> safeFilename,
   originalName |-> file.originalname,
   title |-> IF body.title # <<>> THEN body.title
             ELSE StripExtension(file.originalname),
   size |-> file.size,
   mimeType |-> file.mimetype,
   url |-> videoUrl]

\* formatFileSize(video.size) for the sizes a record can have: the sizes of
\* the files of Forms, and 0 for an empty file.  The result depends on the
\* size alone, so it is computed once for each size.
formattedSize ==
  [n \in {0} \cup UNION {{form.parts[i].size : i \in 1..Len(form.parts)} :
                            form \in Forms} |->
     formatFileSize(Bytes(n))]

\* The object the list, get and upload responses give for a record: the
\* record without its storage key, with the formatted size.
VideoJson(video) ==
  [id |-> video.id,
   title |-> video.title,
   originalName |-> video.originalName,
   size |-> video.size,
   mimeType |-> video.mimeType,
   url |-> video.url,
   formattedSize |-> formattedSize[video.size]]

\* A listing that gives the newest record first.
videoList_NewestFirst(vs) ==
  [i \in 1..Len(vs) |-> VideoJson(vs[Len(vs) + 1 - i])]

\* videos.map(video => ({...}))
videoList(vs) == [i \in 1..Len(vs) |-> VideoJson(vs[i])]

\* catch (error) of POST /api/upload, with '上传失败' for an empty message.
uploadCatch_Generic(message) == Response(500, <<"upload failed">>, 0, <<>>)

uploadCatch(message) ==
  Response(500, IF message # <<>> THEN message ELSE <<"upload failed">>,
           0, <<>>)

\* catch (error) of DELETE /api/videos/:id, with '删除视频失败'.
deleteCatch(message) ==
  Response(500, IF message # <<>> THEN message ELSE <<"delete failed">>,
           0, <<>>)

\* A listing that takes the records out of the list.
ListVideos_Draining(r) ==
  /\ Free(r)
  /\ Reply("list", NoArg,
           Response(200, <<>>, Len(videos), videoList(videos)))
  /\ videos' = <<>>
  /\ UNCHANGED <<objects, putOk, nextUuid, acked>>

\* GET /api/videos
ListVideos(r) ==
  /\ Free(r)
  /\ Reply("list", NoArg,
           Response(200, <<>>, Len(videos), videoList(videos)))
  /\ UNCHANGED <<videos, objects, putOk, nextUuid, acked>>

\* GET /api/videos/:id
GetVideo(r, id) ==
  /\ Free(r)
  /\ LET found == {i \in 1..Len(videos) : videos[i].id = id}
         request == [id |-> id, form |-> NoForm]
     IN  IF found = {}
           THEN Reply("get", request,
                      Response(404, <<"video not found">>, 0, <<>>))
           ELSE LET i == CHOOSE i \in found : \A j \in found : i <= j
                IN  Reply("get", request,
                          Response(200, <<>>, 0, <<VideoJson(videos[i])>>))
  /\ UNCHANGED <<videos, objects, putOk, nextUuid, acked>>

\* POST /api/upload: multer passes an error to the error middleware.
UploadMulterError(r, form) ==
  /\ Free(r)
  /\ MulterOutcome(form) # "ok"
  /\ Reply("upload", [id |-> 0, form |-> form],
           errorMiddleware(MulterOutcome(form)))
  /\ UNCHANGED <<videos, objects, putOk, nextUuid, acked>>

\* POST /api/upload: if (!req.file) return res.status(400) '没有选择文件'.
UploadNoFile(r, form) ==
  /\ Free(r)
  /\ MulterOutcome(form) = "ok"
  /\ form.parts = <<>>
  /\ Reply("upload", [id |-> 0, form |-> form],
           Response(400, <<"no file selected">>, 0, <<>>))
  /\ UNCHANGED <<videos, objects, putOk, nextUuid, acked>>

\* POST /api/upload up to `await uploadToCOS(...)`: the name is generated
\* and putObject is called.
UploadStart(r, form) ==
  /\ Free(r)
  /\ MulterOutcome(form) = "ok"
  /\ form.parts # <<>>
  /\ nextUuid + 2 * (Cardinality({s \in Slots : pc[s] = "putting"}) + 1)
       <= MaxUuid
  /\ nextUuid' = nextUuid + 1
  /\ Suspend(r, "putting", [id |-> 0, form |-> form],
       [NoLoc EXCEPT !.safeFilename =
          generateSafeFilename(form.parts[1].originalname, nextUuid + 1)],
       [put |-> 1, del |-> 0])
  /\ UNCHANGED <<videos, objects, putOk, acked>>

\* An upload that calls putObject again when the call failed.
UploadResume_Retry(r, err) ==
  /\ pc[r] = "putting"
  /\ IF err.failed
       THEN /\ calls[r].put < MaxUuid
            /\ calls' = [calls EXCEPT ![r].put = @ + 1]
            /\ UNCHANGED <<videos, objects, putOk, nextUuid, pc, arg, loc,
                           during, last, fn>>
       ELSE LET p == uploadToCOS(err, loc[r].safeFilename)
                v == newVideo(nextUuid + 1, loc[r].safeFilename, arg[r].form,
                              arg[r].form.parts[1], p.url)
            IN  /\ objects' = objects \cup {loc[r].safeFilename}
                /\ putOk' = putOk \cup {loc[r].safeFilename}
                /\ nextUuid' = nextUuid + 1
                /\ videos' = push(videos, v)
                /\ Answer(r, "upload",
                          Response(200, <<"upload ok">>, 0, <<VideoJson(v)>>),
                          err, videos, push(videos, v))
  /\ UNCHANGED acked

\* putObject's callback with err, and POST /api/upload from the await on.
UploadResume(r, err) ==
  /\ pc[r] = "putting"
  /\ objects' = IF err.failed THEN objects
                ELSE objects \cup {loc[r].safeFilename}
  /\ putOk' = IF err.failed THEN putOk ELSE putOk \cup {loc[r].safeFilename}
  /\ LET p == uploadToCOS(err, loc[r].safeFilename)
         v == newVideo(nextUuid + 1, loc[r].safeFilename, arg[r].form,
                       arg[r].form.parts[1], p.url)
     IN  IF p.resolved
           THEN /\ nextUuid' = nextUuid + 1
                /\ videos' = push(videos, v)
                /\ Answer(r, "upload",
                          Response(200, <<"upload ok">>, 0, <<VideoJson(v)>>),
                          err, videos, push(videos, v))
           ELSE /\ Answer(r, "upload", uploadCatch(p.message), err,
                          videos, videos)
                /\ UNCHANGED <<nextUuid, videos>>
  /\ UNCHANGED acked

\* DELETE /api/videos/:id: if (videoIndex === -1) return res.status(404).
DeleteNotFound(r, id) ==
  /\ Free(r)
  /\ findIndex(videos, id) = -1
  /\ Reply("delete", [id |-> id, form |-> NoForm],
           Response(404, <<"video not found">>, 0, <<>>))
  /\ UNCHANGED <<videos, objects, putOk, nextUuid, acked>>

\* DELETE /api/videos/:id up to `await deleteFromCOS(video.filename)`.
DeleteStart(r, id) ==
  /\ Free(r)
  /\ findIndex(videos, id) # -1
  /\ Suspend(r, "deleting", [id |-> id, form |-> NoForm],
       [NoLoc EXCEPT !.videoIndex = findIndex(videos, id),
                     !.video = videos[findIndex(videos, id) + 1]],
       [put |-> 0, del |-> 1])
  /\ UNCHANGED <<videos, objects, putOk, nextUuid, acked>>

\* A delete whose catch sends nothing: after a failed backend delete the
\* request is left without a response.
DeleteResume_NoAnswer(r, err) ==
  /\ pc[r] = "deleting"
  /\ calls[r].del = 1
  /\ IF err.failed
       THEN /\ calls' = [calls EXCEPT ![r].del = 0]
            /\ UNCHANGED <<videos, objects, pc, arg, loc, during, last,
                           acked, fn>>
       ELSE /\ objects' = objects \ {loc[r].video.filename}
            /\ videos' = splice(videos, loc[r].videoIndex)
            /\ acked' = acked \cup {loc[r].video.id}
            /\ Answer(r, "delete",
                      Response(200, <<"delete ok">>, 0, <<loc[r].video>>),
                      err, videos, splice(videos, loc[r].videoIndex))
  /\ UNCHANGED <<putOk, nextUuid>>

\* deleteObject's callback with err, and DELETE /api/videos/:id from the
\* await on.
DeleteResume(r, err) ==
  /\ pc[r] = "deleting"
  /\ objects' = IF err.failed THEN objects
                ELSE objects \ {loc[r].video.filename}
  /\ LET p == deleteFromCOS(err, loc[r].video.filename)
     IN  IF p.resolved
           THEN /\ videos' = splice(videos, loc[r].videoIndex)
                /\ acked' = acked \cup {loc[r].video.id}
                /\ Answer(r, "delete",
                          Response(200, <<"delete ok">>, 0, <<loc[r].video>>),
                          err, videos, splice(videos, loc[r].videoIndex))
           ELSE /\ Answer(r, "delete", deleteCatch(p.message), err,
                          videos, videos)
                /\ UNCHANGED <<videos, acked>>
  /\ UNCHANGED <<putOk, nextUuid>>

\* DELETE /api/videos on an empty list: Promise.all([]) is resolved, and
\* the handler goes on in the same run.
ClearEmpty(r) ==
  /\ Free(r)
  /\ videos = <<>>
  /\ Reply("clear", NoArg, Response(200, <<"cleared">>, Len(videos), <<>>))
  /\ UNCHANGED <<videos, objects, putOk, nextUuid, acked>>

\* DELETE /api/videos up to `await Promise.all(deletePromises)`: one
\* deleteObject call per record of the list.
ClearStart(r) ==
  /\ Free(r)
  /\ videos # <<>>
  /\ Suspend(r, "clearing", NoArg,
       [NoLoc EXCEPT !.names = [i \in 1..Len(videos) |-> videos[i].filename],
                     !.pending = 1..Len(videos)],
       [put |-> 0, del |-> Len(videos)])
  /\ UNCHANGED <<videos, objects, putOk, nextUuid, acked>>

\* A bulk clear that reports the number of backend deletes it issued.
ClearCallback_CountAtArrival(r, i, err) ==
  /\ pc[r] = "clearing"
  /\ i \in loc[r].pending
  /\ objects' = IF err.failed THEN objects ELSE objects \ {loc[r].names[i]}
  /\ IF loc[r].pending = {i}
       THEN /\ videos' = <<>>
            /\ Answer(r, "clear",
                      Response(200, <<"cleared">>, Len(loc[r].names), <<>>),
                      err, videos, <<>>)
       ELSE /\ loc' = [loc EXCEPT ![r].pending = @ \ {i}]
            /\ UNCHANGED <<videos, pc, arg, calls, during, last, fn>>
  /\ UNCHANGED <<putOk, nextUuid, acked>>

\* The callback of the i-th deleteObject call of DELETE /api/videos; a
\* rejection is caught and logged.  With the last one Promise.all is
\* resolved and the handler goes on: count = videos.length; videos = [].
ClearCallback(r, i, err) ==
  /\ pc[r] = "clearing"
  /\ i \in loc[r].pending
  /\ objects' = IF err.failed THEN objects ELSE objects \ {loc[r].names[i]}
  /\ IF loc[r].pending = {i}
       THEN /\ videos' = <<>>
            /\ Answer(r, "clear",
                      Response(200, <<"cleared">>, Len(videos), <<>>),
                      err, videos, <<>>)
       ELSE /\ loc' = [loc EXCEPT ![r].pending = @ \ {i}]
            /\ UNCHANGED <<videos, pc, arg, calls, during, last, fn>>
  /\ UNCHANGED <<putOk, nextUuid, acked>>

Next ==
  \/ \E r \in Slots : ListVideos(r)
  \/ \E r \in Slots, id \in IdInputs : GetVideo(r, id)
  \/ \E r \in Slots, form \in Forms : UploadMulterError(r, form)
  \/ \E r \in Slots, form \in Forms : UploadNoFile(r, form)
  \/ \E r \in Slots, form \in Forms : UploadStart(r, form)
  \/ \E r \in Slots, err \in CallbackErrs : UploadResume(r, err)
  \/ \E r \in Slots, id \in IdInputs : DeleteNotFound(r, id)
  \/ \E r \in Slots, id \in IdInputs : DeleteStart(r, id)
  \/ \E r \in Slots, err \in CallbackErrs : DeleteResume(r, err)
  \/ \E r \in Slots : ClearEmpty(r)
  \/ \E r \in Slots : ClearStart(r)
  \/ \E r \in Slots, err \in CallbackErrs :
       \E i \in loc[r].pending : ClearCallback(r, i, err)

Spec == Init /\ [][Next]_vars

\* The SDK invokes a callback of a call that slot r's request waits for.
Callback(r) ==
  \/ \E err \in CallbackErrs : UploadResume(r, err)
  \/ \E err \in CallbackErrs : DeleteResume(r, err)
  \/ \E err \in CallbackErrs :
       \E i \in loc[r].pending : ClearCallback(r, i, err)

\* The server with a backend that calls back: a callback that is due is
\* invoked at some time.
SpecLive == Init /\ [][Next]_vars /\ \A r \in Slots : WF_vars(Callback(r))

----------------------------------------------------------------------------
(* The helper functions on their own: the file names a client can send,    *)
(* and what the name generator and the record of the upload make of them.  *)

\* Length of the names.
MaxNameLen == 3

\* A letter, a digit, the two characters the revisions treat differently,
\* the dot, a blank and a Chinese character.  busboy hands the handler the
\* last segment of the name the client sent, so a name has no "/".
NameChars == {"a", "7", "-", "_", ".", " ", "CJK_4E00"}
Names == UNION {[1..n -> NameChars] : n \in 1..MaxNameLen}

\* req.body.title: absent, or a text.
Titles == {<<>>, <<"t">>}

Call(op, in) == [op |-> op, in |-> in, returned |-> FALSE, out |-> <<>>]

InitNames ==
  /\ Started
  /\ fn \in {Call(op, [originalname |-> n, title |-> <<>>]) :
               op \in {"generateSafeFilename", "generateSafeFilename2"},
               n \in Names}
         \cup {Call("newVideo", [originalname |-> n, title |-> t]) :
                 n \in Names, t \in Titles}

Return(value) ==
  /\ ~fn.returned
  /\ fn' = [fn EXCEPT !.returned = TRUE, !.out = value]
  /\ UNCHANGED <<videos, objects, putOk, nextUuid, pc, arg, loc, calls,
                 during, last, acked>>

\* generateSafeFilename(req.file.originalname), the uuid being uniqueId.
CallGenerateSafeFilename(uniqueId) ==
  /\ fn.op = "generateSafeFilename"
  /\ Return(generateSafeFilename(fn.in.originalname, uniqueId))

\* The same call in the second revision.
CallGenerateSafeFilename2(uniqueId) ==
  /\ fn.op = "generateSafeFilename2"
  /\ Return(generateSafeFilename2(fn.in.originalname, uniqueId))

\* The record POST /api/upload makes for a video/mp4 file of that name
\* once its write succeeded.
CallNewVideo(uniqueId) ==
  /\ fn.op = "newVideo"
  /\ LET safeFilename == generateSafeFilename(fn.in.originalname, uniqueId)
     IN  Return(newVideo(uniqueId + 1, safeFilename, fn.in,
                         FilePart(Mime("video", "mp4"), TenMiB,
                                  fn.in.originalname),
                         uploadToCOS(NoErr, safeFilename).url))

NextNames ==
  \/ \E uniqueId \in 1..MaxUuid : CallGenerateSafeFilename(uniqueId)
  \/ \E uniqueId \in 1..MaxUuid : CallGenerateSafeFilename2(uniqueId)
  \/ \E uniqueId \in 1..MaxUuid : CallNewVideo(uniqueId)

SpecNames == InitNames /\ [][NextNames]_vars

----------------------------------------------------------------------------
(* formatFileSize on its own: on the size of a file, as the list, get and  *)
(* upload responses call it, and on the sum of the sizes of the records,   *)
(* as the root route calls it.  Every sum is the sum of some list: the     *)
(* list has no limit, only the size of one file has.                       *)

\* Number of base-k digits of a byte count.
MaxDigits == 5

\* The digits of the byte counts: the least, the greatest, and digits on
\* both sides of the half.
DigitValues == {0, 1, 100, k \div 2, k - 1}

ByteCounts ==
  {b \in UNION {[1..n -> DigitValues] : n \in 0..MaxDigits} :
     b = <<>> \/ b[Len(b)] # 0}

\* The integer of a byte count below 2^30.
RECURSIVE Number(_)
Number(b) == IF b = <<>> THEN 0 ELSE Head(b) + k * Number(Tail(b))

\* req.file.size: multer refuses a file of more than limits.fileSize bytes.
FileSizes ==
  {b \in ByteCounts :
     Len(b) <= Len(Bytes(fileSize)) /\ Number(b) <= fileSize}

InitFormat ==
  /\ Started
  /\ fn \in {Call("formattedSize", [sum |-> <<>>, size |-> b]) :
               b \in FileSizes}
         \cup {Call("totalSize", [sum |-> b, size |-> c]) :
                 b \in ByteCounts, c \in {Bytes(1), Bytes(TenMiB)}}

\* formattedSize: formatFileSize(video.size)
CallFormattedSize ==
  /\ fn.op = "formattedSize"
  /\ Return(formatFileSize(fn.in.size))

\* totalSize: formatFileSize(videos.reduce((sum, video) => sum +
\* video.size, 0)), from the last step of the reduce on.
CallTotalSize ==
  /\ fn.op = "totalSize"
  /\ Return(formatFileSize(Sum(fn.in.sum, fn.in.size, 0)))

NextFormat == CallFormattedSize \/ CallTotalSize

SpecFormat == InitFormat /\ [][NextFormat]_vars

----------------------------------------------------------------------------
(* Steps, as the properties below name them.                               *)

\* Slot r's request is answered in this step, after waiting at `where`.
Resumed(r, where) == pc[r] = where /\ pc'[r] = "idle"

\* Slot r's request calls the backend in this step and waits at `where`.
Suspended(r, where) == pc[r] = "idle" /\ pc'[r] = where

\* A request of kind op is answered by the run that received it.
Replied(op) == pc' = pc /\ last' # last /\ last'.kind = op

\* Slot r's request, which waited for the backend, ends in this step.
Ended(r) == pc[r] # "idle" /\ pc'[r] = "idle"

\* The kind of the request that waits at `where`.
KindAt(where) ==
  CASE where = "putting" -> "upload"
    [] where = "deleting" -> "delete"
    [] where = "clearing" -> "clear"
    [] OTHER -> "none"

\* The list without the records of id x, the others in their order.
Without(vs, x) == LET Keep(v) == v.id # x IN SelectSeq(vs, Keep)

Filenames(vs) == {vs[i].filename : i \in 1..Len(vs)}

\* The forms the upload validation is to refuse: no file part, more than
\* one, a content type that is not a video type, more than 100 MiB.
ValidationRejects(form) ==
  \/ Len(form.parts) # 1
  \/ form.parts[1].mimetype.type # "video"
  \/ form.parts[1].size > 100 * 1024 * 1024

\* The allow-set of the name generator: ASCII letters, digits, underscore,
\* hyphen and the Chinese characters U+4E00..U+9FA5.
AllowSet == Lower \cup Upper \cup Digit \cup {"_", "-"} \cup Cjk

\* A call of the name generator, of either revision, has returned.
NameGenerated ==
  fn.op \in {"generateSafeFilename", "generateSafeFilename2"} /\ fn.returned

\* The byte count a call of formatFileSize has formatted.
Formatted ==
  IF fn.op = "totalSize" THEN Sum(fn.in.sum, fn.in.size, 0) ELSE fn.in.size

\* The integer a string of decimal digits stands for.
RECURSIVE Integer(_)
Integer(str) ==
  IF str = <<>> THEN 0
  ELSE 10 * Integer(SubSeq(str, 1, Len(str) - 1))
         + (CHOOSE n \in 0..9 : ToString(n) = str[Len(str)])

\* The number of hundredths a printed number "w", "w.d" or "w.dd" is.
Hundredths(str) ==
  LET dot == LastIndexOf(str, ".")
  IN  IF dot = 0 THEN 100 * Integer(str)
      ELSE 100 * Integer(SubSeq(str, 1, dot - 1))
             + (IF Len(str) - dot = 1 THEN 10 ELSE 1)
                 * Integer(SubSeq(str, dot + 1, Len(str)))

\* h hundredths is b / 1024^i rounded to two decimals, for b of i + 1
\* digits and i <= 3: with b = q * 1024^i + r and h = 100 * q + c, the
\* distance of 100 * r and c * 1024^i is at most half of 1024^i.  For
\* i = 3 the two are compared after division by 1024, r being
\* 1024 * r1 + r0.
RoundedToTwoDecimals(b, i, h) ==
  LET r == Number(SubSeq(b, 1, i))
      c == h - 100 * b[i + 1]
  IN  CASE i = 0 -> c = 0
        [] i \in {1, 2} ->
             LET d == 200 * r - 2 * c * 1024^i
             IN  -(1024^i) <= d /\ d <= 1024^i
        [] OTHER ->
             LET x == 100 * (r \div 1024) - c * 1024^2
                 y == 100 * (r % 1024)
             IN  /\ x <= (512 * 1024^2 - y) \div 1024
                 /\ x >= -((512 * 1024^2 + y) \div 1024)

----------------------------------------------------------------------------
(* The properties.                                                         *)

\* C1: every record of the list has a storage key whose putObject call has
\* completed with success, and the key of an upload that still waits for
\* its write is the key of no record.
C1_RecordsAreWritten ==
  /\ \A i \in 1..Len(videos) : videos[i].filename \in putOk
  /\ \A r \in Slots :
       pc[r] = "putting" => loc[r].safeFilename \notin Filenames(videos)

\* An upload waits for its write while the list holds a record.
C1_Witness ==
  \E r \in Slots : pc[r] = "putting" /\ videos # <<>> /\ nextUuid > 2

\* C2: when the write of an upload fails, the answer is 500 with the
\* backend's message in it, and the list is left as it was.
C2_FailedWriteAborts ==
  [][\A r \in Slots :
       (Resumed(r, "putting") /\ last'.err.failed) =>
          /\ last'.resp.status = 500
          /\ \E i \in 1..Len(last'.resp.message) :
               last'.resp.message[i] = last'.err.message
          /\ videos' = videos]_vars

\* An upload was answered 500 after its write failed, the list not empty.
C2_Witness ==
  /\ last.kind = "upload"
  /\ last.err.failed
  /\ last.resp.status = 500
  /\ videos # <<>>

\* C3: a delete of an existing record, the list untouched while it waited
\* for the backend, is answered 200 and the record is gone, whether the
\* backend delete succeeded or failed.
C3_DeleteSucceedsRegardless ==
  [][\A r \in Slots :
       (Resumed(r, "deleting") /\ during[r] = {}) =>
          /\ last'.resp.status = 200
          /\ loc[r].video.id \notin Ids(videos')]_vars

\* C4: a delete of an id that no record has calls no backend delete, is
\* answered 404 and leaves the list as it was.
C4_UnknownIdNotFound ==
  [][/\ \A r \in Slots :
          Suspended(r, "deleting") => arg'[r].id \in Ids(videos)
     /\ (Replied("delete") /\ last'.arg.id \notin Ids(videos)) =>
          /\ last'.resp.status = 404
          /\ calls' = calls
          /\ objects' = objects
          /\ videos' = videos]_vars

\* A delete of an unknown id was answered 404 while the list held records.
C4_Witness ==
  /\ last.kind = "delete"
  /\ last.resp.status = 404
  /\ last.arg.id \notin Ids(videos)
  /\ videos # <<>>

\* C5: an upload that validation is to refuse never calls putObject and
\* leaves the list as it was.
C5_RejectedUploadTouchesNothing ==
  [][/\ \A r \in Slots :
          Suspended(r, "putting") => ~ValidationRejects(arg'[r].form)
     /\ (Replied("upload") /\ ValidationRejects(last'.arg.form)) =>
          /\ calls' = calls
          /\ objects' = objects
          /\ videos' = videos]_vars

\* The 150 MB video/mp4 upload was refused while the list held a record.
C5_Witness ==
  /\ last.kind = "upload"
  /\ Len(last.arg.form.parts) = 1
  /\ last.arg.form.parts[1].size = 150 * 1024 * 1024
  /\ last.resp.status = 400
  /\ videos # <<>>

\* C6: every upload that validation refuses is answered with status 400.
C6_RejectedUploadGets400 ==
  (last.kind = "upload" /\ ValidationRejects(last.arg.form)) =>
     last.resp.status = 400

\* C7: two deletes of distinct records X and Y overlap and both backend
\* deletes succeed: when the second one (of X) is answered, after the first
\* (of Y, answered 200, itself undisturbed) removed Y while it waited, the
\* list loses X and nothing else.
C7_OverlappingDeletesRemoveTheirOwn ==
  [][\A r \in Slots :
       ( /\ Resumed(r, "deleting")
         /\ ~last'.err.failed
         /\ last.kind = "delete"
         /\ last.resp.status = 200
         /\ last.during = {}
         /\ last.arg.id # arg[r].id
         /\ during[r] = {<<"removed", last.arg.id>>} ) =>
          /\ arg[r].id \notin Ids(videos')
          /\ videos' = Without(videos, arg[r].id)]_vars

\* C8: a delete of X waits for the backend while uploads, and nothing
\* else, change the list: when it is answered, X is the record that went
\* and the uploaded records are still there.
C8_DeleteKeepsRacingUpload ==
  [][\A r \in Slots :
       ( /\ Resumed(r, "deleting")
         /\ ~last'.err.failed
         /\ during[r] # {}
         /\ \A e \in during[r] : e[1] = "pushed" ) =>
          /\ \A e \in during[r] : e[2] \in Ids(videos')
          /\ arg[r].id \notin Ids(videos')
          /\ videos' = Without(videos, arg[r].id)]_vars

\* A delete was answered 200 after an upload, and nothing else, changed the
\* list while it waited; the uploaded record is in the list.
C8_Witness ==
  /\ last.kind = "delete"
  /\ last.resp.status = 200
  /\ last.during # {}
  /\ \A e \in last.during : e[1] = "pushed" /\ e[2] \in Ids(videos)
  /\ last.arg.id \notin Ids(videos)

\* C9: a GET of an id whose delete was answered with success is answered
\* 404.
C9_GetAfterDeleteIs404 ==
  [][(Replied("get") /\ last'.arg.id \in acked) =>
        last'.resp.status = 404]_vars

\* C10: no two records of the list share an id, and no two share a storage
\* key.
C10_IdsAndKeysUnique ==
  \A i, j \in 1..Len(videos) :
     i # j => /\ videos[i].id # videos[j].id
              /\ videos[i].filename # videos[j].filename

\* The list holds two records uploaded under the same original name.
C10_Witness ==
  /\ Len(videos) = 2
  /\ videos[1].originalName = videos[2].originalName

\* No request is in flight.
Quiescent == \A r \in Slots : pc[r] = "idle"

\* C11: whenever no request is in flight, the storage keys of the records
\* of the list are exactly the keys of the objects present in the bucket.
C11_RecordsMatchObjects == Quiescent => Filenames(videos) = objects

\* C12: GET /api/videos is answered 200 with one object per record of the
\* list, in the order of the list, which is the order in which the uploads
\* were committed (the ids are drawn in that order), and count is the
\* number of objects returned.
C12_ListReturnsAllOldestFirst ==
  [][Replied("list") =>
       /\ last'.resp.status = 200
       /\ Len(last'.resp.body) = Len(videos)
       /\ last'.resp.count = Len(last'.resp.body)
       /\ \A i \in 1..Len(videos) :
            /\ last'.resp.body[i].id = videos[i].id
            /\ last'.resp.body[i].originalName = videos[i].originalName
       /\ \A i, j \in 1..Len(last'.resp.body) :
            i < j => last'.resp.body[i].id < last'.resp.body[j].id]_vars

\* A listing of two records was answered.
C12_Witness ==
  /\ last.kind = "list"
  /\ last.resp.count = 2
  /\ Len(videos) = 2

\* C13: the answer to GET /api/videos and to GET /api/videos/:id leaves
\* the list and the bucket as they were, and a listing that follows a
\* listing with no response in between gives the same output.
C13_ReadsChangeNothing ==
  [][/\ (Replied("list") \/ Replied("get")) =>
          videos' = videos /\ objects' = objects
     /\ (last.kind = "list" /\ last'.kind = "list") =>
          /\ last'.resp = last.resp
          /\ videos' = videos]_vars

\* A listing of a list that is not empty was answered last, while another
\* request waits for the backend.
C13_Witness ==
  /\ last.kind = "list"
  /\ last.resp.body # <<>>
  /\ videos # <<>>
  /\ \E r \in Slots : pc[r] # "idle"

\* C14: an accepted upload is answered with the byte length of its file as
\* size, the record it adds has that size, a record keeps its size as long
\* as it is in the list, and the list and get responses give the size of
\* the record.
C14_SizeIsByteLength ==
  [][/\ \A r \in Slots :
          (Resumed(r, "putting") /\ last'.resp.status = 200) =>
             /\ last'.resp.body[1].size = arg[r].form.parts[1].size
             /\ videos'[Len(videos')].id = last'.resp.body[1].id
             /\ videos'[Len(videos')].size = arg[r].form.parts[1].size
     /\ \A i \in 1..Len(videos), j \in 1..Len(videos') :
          videos'[j].id = videos[i].id => videos'[j].size = videos[i].size
     /\ ((Replied("list") \/ Replied("get")) /\ last'.resp.status = 200) =>
          \A i \in 1..Len(last'.resp.body) :
             \E j \in 1..Len(videos) :
                /\ videos[j].id = last'.resp.body[i].id
                /\ videos[j].size = last'.resp.body[i].size]_vars

\* A record was fetched by its id, and its size is the 10 MiB of its file.
C14_Witness ==
  /\ last.kind = "get"
  /\ last.resp.status = 200
  /\ last.resp.body[1].size = TenMiB
  /\ \E i \in 1..Len(videos) :
       videos[i].id = last.arg.id /\ videos[i].size = TenMiB

\* C18 as stated: a bulk clear is answered 200, leaves the list empty, and
\* reports as count the number of records the list held when the request
\* arrived.
C18_ClearCountsRecordsAtArrival ==
  [][/\ \A r \in Slots :
          Resumed(r, "clearing") =>
             /\ last'.resp.status = 200
             /\ videos' = <<>>
             /\ last'.resp.count = Len(loc[r].names)
     /\ Replied("clear") =>
          /\ last'.resp.status = 200
          /\ videos' = <<>>
          /\ last'.resp.count = Len(videos)]_vars

\* C18: a bulk clear is answered 200, leaves the list empty, and reports as
\* count the number of records it removes: the length of the list at the
\* moment the list is emptied, whether or not backend deletes failed.
C18_ClearCountsRecordsRemoved ==
  [][/\ \A r \in Slots :
          Resumed(r, "clearing") =>
             /\ last'.resp.status = 200
             /\ videos' = <<>>
             /\ last'.resp.count = Len(videos)
     /\ Replied("clear") =>
          /\ last'.resp.status = 200
          /\ videos' = <<>>
          /\ last'.resp.count = Len(videos)]_vars

\* A bulk clear of a list of one record was answered with count 2 after
\* an upload added a record while it waited, its backend delete failed.
C18_Witness ==
  /\ last.kind = "clear"
  /\ last.resp.status = 200
  /\ last.err.failed
  /\ last.during = {<<"pushed", 4>>}
  /\ last.resp.count = 2
  /\ videos = <<>>

\* C20: a request that waits for the backend has issued one call, one
\* putObject for an upload and one deleteObject for a delete by id, and
\* issues no other call while it waits: with the callback, failed or not,
\* the request is answered.
C20_NoBackendCallRepeated ==
  [][\A r \in Slots :
       /\ pc[r] = "putting" => calls[r] = [put |-> 1, del |-> 0]
       /\ pc[r] = "deleting" => calls[r] = [put |-> 0, del |-> 1]
       /\ pc[r] \in {"putting", "deleting"} =>
            calls'[r] = calls[r] \/ pc'[r] = "idle"]_vars

\* A delete was answered 500 after its one backend call failed, while an
\* upload waits for its one putObject call.
C20_Witness ==
  /\ last.kind = "delete"
  /\ last.err.failed
  /\ last.resp.status = 500
  /\ \E r \in Slots : pc[r] = "putting" /\ calls[r].put = 1

\* C15: the record of an upload with a title has that title; the record of
\* an upload without one has as title the original name without the
\* extension the name generator found in that name.
C15_TitleIsNameWithoutExtension ==
  (fn.op = "newVideo" /\ fn.returned) =>
     IF fn.in.title # <<>>
       THEN fn.out.title = fn.in.title
       ELSE fn.out.title \o fn.out.filename.ext = fn.in.originalname

\* C16: the base of the generated name is the original name without its
\* extension, each character of the allow-set kept and every other one
\* replaced by "_"; the name is that base, "_", the token and the
\* extension.
C16_BaseIsSanitizedCharByChar ==
  NameGenerated =>
     LET name == fn.in.originalname
         n    == Len(fn.out.base)
     IN  /\ n + Len(fn.out.ext) = Len(name)
         /\ \A i \in 1..n :
              fn.out.base[i] = IF name[i] \in AllowSet THEN name[i] ELSE "_"
         /\ fn.out.ext = SubSeq(name, n + 1, Len(name))
         /\ fn.out.uuid \in 1..MaxUuid

\* C17: the generated name (base, "_", token, extension; the token is hex
\* digits and hyphens) has no "/", no two dots in a row, and each of its
\* characters is in the allow-set or is the one dot that starts the
\* extension.
C17_KeyNeedsNoEscaping ==
  NameGenerated =>
     LET ext == fn.out.ext
     IN  /\ \A i \in 1..Len(fn.out.base) :
              fn.out.base[i] \in AllowSet \ {"/"}
         /\ ext # <<>> =>
              /\ ext[1] = "."
              /\ \A i \in 2..Len(ext) : ext[i] \in AllowSet \ {"/", "."}

\* C19: formatFileSize gives "0 Bytes" for 0, "1 KB" for 1024 and "1.5 MB"
\* for 1572864; for a byte count b from 1 to 1024^4 - 1 the unit is the
\* i-th of Bytes, KB, MB, GB with 1024^i <= b < 1024^(i+1), and the number
\* is b / 1024^i rounded to two decimals, printed without final zeros; and
\* the unit is one of the four names for the size of every file and the
\* total size of every list.
C19_FormatFileSize ==
  (fn.op \in {"formattedSize", "totalSize"} /\ fn.returned) =>
     LET b == Formatted
         i == Len(b) - 1
         names == <<"Bytes", "KB", "MB", "GB">>
     IN  /\ b = <<>> => fn.out = [number |-> <<"0">>, unit |-> "Bytes"]
         /\ b = <<0, 1>> => fn.out = [number |-> <<"1">>, unit |-> "KB"]
         /\ b = <<0, 512, 1>> =>
              fn.out = [number |-> <<"1", ".", "5">>, unit |-> "MB"]
         /\ (b # <<>> /\ i < 4) =>
              /\ fn.out.unit = names[i + 1]
              /\ RoundedToTwoDecimals(b, i, Hundredths(fn.out.number))
              /\ fn.out.number[Len(fn.out.number)] # "."
              /\ LastIndexOf(fn.out.number, ".") # 0 =>
                   /\ Len(fn.out.number) - LastIndexOf(fn.out.number, ".") <= 2
                   /\ fn.out.number[Len(fn.out.number)] # "0"
         /\ fn.out.unit \in {names[n] : n \in 1..4}

\* C19 for the byte counts below 1024^4 alone.
C19_BelowFourthPower ==
  Len(Formatted) <= 4 => C19_FormatFileSize

\* C21: two deletes of the same record X overlap and both backend deletes
\* succeed: when the second one is answered, after the first (answered
\* 200, itself undisturbed) removed X while it waited, no record is
\* removed, X being gone already.
C21_SameIdDeletesRemoveOnlyX ==
  [][\A r \in Slots :
       ( /\ Resumed(r, "deleting")
         /\ ~last'.err.failed
         /\ last.kind = "delete"
         /\ last.resp.status = 200
         /\ last.during = {}
         /\ last.arg.id = arg[r].id
         /\ during[r] = {<<"removed", arg[r].id>>} ) =>
          /\ Ids(videos') = Ids(videos)
          /\ videos' = videos]_vars

\* C22: the records a bulk clear takes out of the list are records for
\* whose storage key that request has called deleteObject.
C22_ClearRemovesOnlyWhatItDeleted ==
  [][\A r \in Slots :
       Resumed(r, "clearing") =>
          \A i \in 1..Len(videos) :
             videos[i].id \notin Ids(videos') =>
                \E j \in 1..Len(loc[r].names) :
                   loc[r].names[j] = videos[i].filename]_vars

\* C23: with a backend that calls back, every request that waits for the
\* backend is answered at some time; a request ends with its one answer,
\* a response is sent either by the run that received the request or by
\* the run that ends one waiting request, and a request that starts to
\* wait or goes on waiting has sent none.
C23_EveryRequestAnsweredOnce ==
  /\ \A r \in Slots : (pc[r] # "idle") ~> (pc[r] = "idle")
  /\ [][/\ \A r \in Slots :
             Ended(r) =>
                /\ last'.kind = KindAt(pc[r])
                /\ last'.arg = arg[r]
                /\ last'.resp.status \in {200, 500}
                /\ \A q \in Slots \ {r} : pc'[q] = pc[q]
        /\ last' # last =>
             \/ pc' = pc /\ last'.resp.status \in {200, 400, 404, 500}
             \/ \E r \in Slots : Ended(r)
        /\ (\E r \in Slots : pc'[r] \notin {"idle", pc[r]}) =>
             last' = last]_vars

\* A delete was answered 500 after its backend call failed; no request
\* waits and the record is still in the list.
C23_Witness ==
  /\ last.kind = "delete"
  /\ last.err.failed
  /\ last.resp.status = 500
  /\ Quiescent
  /\ last.arg.id \in Ids(videos)

====
